---------------------------- MODULE Spec2Model ----------------------------
(***************************************************************************)
(* Model of the retrieval-augmented-generation pipeline of Rag-ChatBot:    *)
(* RAGChain (src/rag/rag_chain.py), the two vector-store adapters          *)
(* (src/vector_store/), the factory, and LLMHandler.format_prompt.         *)
(*                                                                         *)
(* Text is a sequence of symbols.  A symbol is one character, or one       *)
(* literal piece of an f-string template kept as a single token.           *)
(* Scores are in tenths (7 stands for 0.7).                                *)
(***************************************************************************)
EXTENDS Integers, Sequences, FiniteSets, TLC

VARIABLES settings, vector_store, backend, records, persisted, next_id, last,
          llm_handler, rag_chain_instance, rate_limiter_instance, procs

vars == <<settings, vector_store, backend, records, persisted, next_id, last,
          llm_handler, rag_chain_instance, rate_limiter_instance, procs>>

\* the state outside the chain and its store: the LLM handler's defaults, the
\* process-wide chain of api/dependencies.py, the rate limiter, and the
\* calls in progress of the concurrent specifications
service_vars == <<rag_chain_instance, rate_limiter_instance, procs>>

(***************************************************************************)
(* Bounds of the model.                                                    *)
(***************************************************************************)
MaxLen == 3

MaxDocs == 2

MaxStore == 2

MaxK == 2

MaxConnections == 2

MaxTime == 3

MaxDenied == 2

Slack == 1

(***************************************************************************)
(* Text helpers.                                                           *)
(***************************************************************************)
\* an optional argument: None, or Some(value)
None == <<>>

Some(x) == <<x>>

Chars == {" ", "a"}

Whitespace == {" ", "\n", "\t"}

RECURSIVE TextsOfLen(_)
TextsOfLen(n) ==
    IF n = 0 THEN {<<>>}
    ELSE {Append(s, c) : s \in TextsOfLen(n - 1), c \in Chars}

Texts == UNION {TextsOfLen(n) : n \in 0..MaxLen}

Min(a, b) == IF a < b THEN a ELSE b

\* Python str.lstrip(): drop leading whitespace
RECURSIVE LStrip(_)
LStrip(s) ==
    IF s # <<>> /\ Head(s) \in Whitespace THEN LStrip(Tail(s)) ELSE s

\* Python str.rstrip(): drop trailing whitespace
RECURSIVE RStrip(_)
RStrip(s) ==
    IF s # <<>> /\ s[Len(s)] \in Whitespace
    THEN RStrip(SubSeq(s, 1, Len(s) - 1))
    ELSE s

\* Python str.strip()
Strip(s) == RStrip(LStrip(s))

Digit(d) == <<"0", "1", "2", "3", "4", "5", "6", "7", "8", "9">>[d + 1]

\* Python str(i) for i >= 0, as inserted by an f-string
RECURSIVE Str(_)
Str(i) == IF i < 10 THEN <<Digit(i)>> ELSE Str(i \div 10) \o <<Digit(i % 10)>>

\* Python sep.join(parts)
RECURSIVE Join(_, _)
Join(sep, parts) ==
    IF parts = <<>> THEN <<>>
    ELSE IF Len(parts) = 1 THEN parts[1]
    ELSE parts[1] \o sep \o Join(sep, Tail(parts))

\* Python s[:n]
Prefix(s, n) == SubSeq(s, 1, Min(n, Len(s)))

\* Python s.startswith(p)
StartsWith(s, p) == Len(p) <= Len(s) /\ SubSeq(s, 1, Len(p)) = p

\* Python dict.get(key, default)
Get(m, key, default) == IF key \in DOMAIN m THEN m[key] ELSE default

(***************************************************************************)
(* Documents: langchain Document(page_content, metadata).                  *)
(***************************************************************************)
Sources == {<<"f">>}

Metadatas ==
    {[source |-> s, file_type |-> "txt"] : s \in Sources}
        \cup {[file_type |-> "txt"]}

Document(content, metadata) == [page_content |-> content, metadata |-> metadata]

DocsOver(contents) == {Document(c, m) : c \in contents, m \in Metadatas}

\* no call in progress and no result waiting for the caller
Idle == [op |-> "idle"]

\* the lists of length n over S
ListsOfLen(S, n) == [1..n -> S]

(***************************************************************************)
(* RAGChain.format_context                                                 *)
(***************************************************************************)
NO_INFO == <<"No relevant information found in the course materials.">>

Unknown == <<"Unknown">>

\* variant: numbers the blocks from 0
ContextBlock_zero_based(i, doc) ==
    LET source  == Get(doc.metadata, "source", Unknown)
        content == Strip(doc.page_content)
    IN  <<"[Source ">> \o Str(i - 1) \o <<": ">> \o source \o <<"]", "\n">> \o content

ContextBlock(i, doc) ==
    LET source  == Get(doc.metadata, "source", Unknown)
        content == Strip(doc.page_content)
    IN  <<"[Source ">> \o Str(i) \o <<": ">> \o source \o <<"]", "\n">> \o content

\* variant: no sentence for an empty list
format_context_no_sentence(documents) ==
    Join(<<"\n", "\n">>,
         [i \in 1..Len(documents) |-> ContextBlock(i, documents[i])])

format_context(documents) ==
    IF documents = <<>> THEN NO_INFO
    ELSE Join(<<"\n", "\n">>,
              [i \in 1..Len(documents) |-> ContextBlock(i, documents[i])])

(***************************************************************************)
(* RAGChain.query, source assembly                                         *)
(***************************************************************************)
SOURCE_PREVIEW_LEN == 200

Ellipsis == <<".", ".", ".">>

\* variant: truncates a content of exactly the preview length too
SourceEntry_at_limit(doc) ==
    [source  |-> Get(doc.metadata, "source", Unknown),
     content |-> IF Len(doc.page_content) >= SOURCE_PREVIEW_LEN
                 THEN Prefix(doc.page_content, SOURCE_PREVIEW_LEN) \o Ellipsis
                 ELSE doc.page_content]

SourceEntry(doc) ==
    [source  |-> Get(doc.metadata, "source", Unknown),
     content |-> IF Len(doc.page_content) > SOURCE_PREVIEW_LEN
                 THEN Prefix(doc.page_content, SOURCE_PREVIEW_LEN) \o Ellipsis
                 ELSE doc.page_content]

\* variant: lists the sources from the last match to the first
BuildSources_reversed(retrieved_docs) ==
    [i \in 1..Len(retrieved_docs) |->
        SourceEntry(retrieved_docs[Len(retrieved_docs) + 1 - i])]

BuildSources(retrieved_docs) ==
    [i \in 1..Len(retrieved_docs) |-> SourceEntry(retrieved_docs[i])]

(***************************************************************************)
(* LLMHandler.format_prompt                                                *)
(***************************************************************************)
SystemHeader == <<"<|begin_of_text|><|start_header_id|>system<|end_header_id|>", "\n", "\n">>

ContextLabel == <<"\n", "\n", "Context:", "\n">>

UserHeader == <<"<|eot_id|><|start_header_id|>user<|end_header_id|>", "\n", "\n">>

AssistantHeader == <<"<|eot_id|><|start_header_id|>assistant<|end_header_id|>", "\n", "\n">>

\* variant: emits the context section whatever the context
format_prompt_always_context(sys, user_message, context) ==
    SystemHeader \o sys \o ContextLabel \o context
        \o UserHeader \o user_message \o AssistantHeader

format_prompt(sys, user_message, context) ==
    IF context # <<>>
    THEN SystemHeader \o sys \o ContextLabel \o context
             \o UserHeader \o user_message \o AssistantHeader
    ELSE SystemHeader \o sys
             \o UserHeader \o user_message \o AssistantHeader


(***************************************************************************)
(* LLMHandler.__init__: the stored generation defaults, from the settings  *)
(* (temperature and top_p in tenths).                                      *)
(***************************************************************************)
LLM_MAX_TOKENS == 512

LLM_TEMPERATURE == 7

LLM_TOP_P == 9

LLMHandler ==
    [max_tokens |-> LLM_MAX_TOKENS, temperature |-> LLM_TEMPERATURE,
     top_p |-> LLM_TOP_P]

Clients == {"c1", "c2"}

Procs == {1, 2}

\* no chain constructed by get_rag_chain, no request seen by the rate
\* limiter, no concurrent call in progress
ServiceAtRest ==
    /\ rag_chain_instance = [instance |-> None, constructions |-> 0,
                             returned |-> {}]
    /\ rate_limiter_instance =
           [now |-> 0, requests |-> [c \in Clients |-> <<>>],
            accepted |-> [c \in Clients |-> <<>>],
            denied |-> [c \in Clients |-> 0]]
    /\ procs = [p \in Procs |-> [pc |-> "idle"]]

(***************************************************************************)
(* Embedding model (EmbeddingGenerator, normalize_embeddings = True): a    *)
(* deterministic map from a text to a unit vector.  The model keeps one    *)
(* coordinate, Embed(text) in 0..Scale, and the cosine similarity of two   *)
(* texts is Scale minus the distance of their coordinates (in tenths).     *)
(***************************************************************************)
Scale == 10

Code(c) == IF c \in Whitespace THEN 0 ELSE 3

RECURSIVE CodeSum(_)
CodeSum(text) == IF text = <<>> THEN 0 ELSE Code(Head(text)) + CodeSum(Tail(text))

Embed(text) == CodeSum(text) % (Scale + 1)

Abs(x) == IF x < 0 THEN 0 - x ELSE x

CosSim(u, v) == Scale - Abs(u - v)

(***************************************************************************)
(* Backends behind the adapters (langchain_community.vectorstores).        *)
(* Pinecone (index created with metric = 'cosine') scores a match by its   *)
(* cosine similarity and returns the matches by decreasing score.  Chroma  *)
(* (default space l2) scores a match by the squared L2 distance, which is  *)
(* 2 - 2 * cos for unit vectors, and returns the matches by increasing     *)
(* distance.  Both return the k nearest records that pass the metadata     *)
(* filter; both embed the query first and reject a k below 1.              *)
(***************************************************************************)
Pinecone == <<"p", "i", "n", "e", "c", "o", "n", "e">>

Chroma == <<"c", "h", "r", "o", "m", "a">>

BackendScore(kind, sim) == IF kind = "pinecone" THEN sim ELSE 2 * (Scale - sim)

MatchesFilter(doc, filter) ==
    filter = None \/
        ("source" \in DOMAIN doc.metadata /\ doc.metadata.source = filter[1].source)

\* position of the record nearest to the query vector, the earliest on a tie
Nearest(recs, qv) ==
    CHOOSE i \in 1..Len(recs) :
        \A j \in 1..Len(recs) :
            LET si == CosSim(qv, Embed(recs[i].doc.page_content))
                sj == CosSim(qv, Embed(recs[j].doc.page_content))
            IN  si > sj \/ (si = sj /\ i <= j)

Without(recs, i) == SubSeq(recs, 1, i - 1) \o SubSeq(recs, i + 1, Len(recs))

RECURSIVE NearestK(_, _, _)
NearestK(recs, qv, k) ==
    IF k = 0 \/ recs = <<>> THEN <<>>
    ELSE LET i == Nearest(recs, qv)
         IN  <<recs[i]>> \o NearestK(Without(recs, i), qv, k - 1)

BackendSearchWithScore(kind, query, k, filter) ==
    LET qv    == Embed(query)
        pool  == SelectSeq(records, LAMBDA r : MatchesFilter(r.doc, filter))
        found == NearestK(pool, qv, k)
    IN  [i \in 1..Len(found) |->
            <<found[i].doc,
              BackendScore(kind, CosSim(qv, Embed(found[i].doc.page_content)))>>]

(***************************************************************************)
(* PineconeVectorStore / ChromaVectorStore.similarity_search_with_score    *)
(* and similarity_search.  The outcome records what the call did:          *)
(* "return" with a result or "raise" with an error, and the number of      *)
(* embedding and backend calls made.                                       *)
(***************************************************************************)
\* Python `k or settings.RETRIEVAL_TOP_K`: None and 0 are falsy
OrDefault(k, default) == IF k = None \/ k[1] = 0 THEN default ELSE k[1]

similarity_search_with_score(query, k, filter, backend_ok) ==
    LET kk == OrDefault(k, settings.RETRIEVAL_TOP_K)
    IN  IF ~backend_ok
        THEN [outcome |-> "raise", error |-> "ConnectionError", k_used |-> kk,
              embed_calls |-> 1, backend_calls |-> 1]
        ELSE IF kk < 1
        THEN [outcome |-> "raise", error |-> "BackendError", k_used |-> kk,
              embed_calls |-> 1, backend_calls |-> 1]
        ELSE [outcome |-> "return", k_used |-> kk,
              result |-> BackendSearchWithScore(vector_store, query, kk, filter),
              embed_calls |-> 1, backend_calls |-> 1]

similarity_search(query, k, filter, backend_ok) ==
    LET r == similarity_search_with_score(query, k, filter, backend_ok)
    IN  IF r.outcome = "raise" THEN r
        ELSE [r EXCEPT !.result = [i \in 1..Len(r.result) |-> r.result[i][1]]]

(***************************************************************************)
(* RAGChain.retrieve_context                                               *)
(***************************************************************************)
\* variant: drops a score equal to the threshold
ThresholdFilter_strict(results) ==
    LET kept == SelectSeq(results,
                          LAMBDA m : m[2] > settings.SIMILARITY_THRESHOLD)
    IN  [i \in 1..Len(kept) |-> kept[i][1]]

ThresholdFilter(results) ==
    LET kept == SelectSeq(results,
                          LAMBDA m : m[2] >= settings.SIMILARITY_THRESHOLD)
    IN  [i \in 1..Len(kept) |-> kept[i][1]]

retrieve_context(query, k, filter, backend_ok) ==
    LET kk == OrDefault(k, settings.RETRIEVAL_TOP_K)
        r  == similarity_search_with_score(query, Some(kk), filter, backend_ok)
    IN  IF r.outcome = "raise" THEN r
        ELSE [outcome |-> "return", k_used |-> r.k_used, results |-> r.result,
              result |-> ThresholdFilter(r.result),
              embed_calls |-> r.embed_calls, backend_calls |-> r.backend_calls]

(***************************************************************************)
(* LLMHandler.generate_response: the pipeline either raises or returns a   *)
(* text that may start with an echo of the prompt.                         *)
(***************************************************************************)
Completion == <<" ", "a", "n", "s", "w", "e", "r">>

\* the keyword arguments the pipeline is invoked with
generation_kwargs(max_tokens, temperature) ==
    [max_new_tokens |-> OrDefault(max_tokens, llm_handler.max_tokens),
     temperature    |-> OrDefault(temperature, llm_handler.temperature),
     top_p          |-> llm_handler.top_p,
     do_sample      |-> TRUE]

\* the text the caller gets from what the pipeline generated
StripEcho(generated_text, prompt) ==
    IF StartsWith(generated_text, prompt)
    THEN Strip(SubSeq(generated_text, Len(prompt) + 1, Len(generated_text)))
    ELSE generated_text

\* variant: a supplied override becomes the handler's stored default
generate_response_sticky(prompt, max_tokens, temperature, llm) ==
    LET kwargs == generation_kwargs(max_tokens, temperature)
        after  == [llm_handler EXCEPT !.max_tokens = kwargs.max_new_tokens,
                                      !.temperature = kwargs.temperature]
    IN  IF llm = "fail"
        THEN [outcome |-> "raise", error |-> "GenerationError",
              generation_kwargs |-> kwargs, llm_handler |-> after]
        ELSE [outcome |-> "return",
              result |-> StripEcho(IF llm = "echo" THEN prompt \o Completion
                                   ELSE Completion, prompt),
              generation_kwargs |-> kwargs, llm_handler |-> after]

\* `llm_handler` in the result is the handler's state after the call: the
\* method assigns no attribute of self
generate_response(prompt, max_tokens, temperature, llm) ==
    LET kwargs == generation_kwargs(max_tokens, temperature)
    IN  IF llm = "fail"
        THEN [outcome |-> "raise", error |-> "GenerationError",
              generation_kwargs |-> kwargs, llm_handler |-> llm_handler]
        ELSE [outcome |-> "return",
              result |-> StripEcho(IF llm = "echo" THEN prompt \o Completion
                                   ELSE Completion, prompt),
              generation_kwargs |-> kwargs, llm_handler |-> llm_handler]

(***************************************************************************)
(* RAGChain.generate_answer and RAGChain.query                             *)
(***************************************************************************)
system_prompt == <<"You are a helpful AI assistant ... with proper structure">>

\* variant: answers with a fallback text when the generation fails
generate_answer_fallback(query, context, max_tokens, temperature, llm) ==
    LET prompt == format_prompt(system_prompt, query, context)
        r      == generate_response(prompt, max_tokens, temperature, llm)
    IN  (IF r.outcome = "raise"
         THEN [outcome |-> "return", result |-> <<"Sorry, something went wrong.">>,
               generation_kwargs |-> r.generation_kwargs,
               llm_handler |-> r.llm_handler]
         ELSE r) @@ [prompt |-> prompt, generate_calls |-> 1]

generate_answer(query, context, max_tokens, temperature, llm) ==
    LET prompt == format_prompt(system_prompt, query, context)
        r      == generate_response(prompt, max_tokens, temperature, llm)
    IN  r @@ [prompt |-> prompt, generate_calls |-> 1]

query(question, k, filter, max_tokens, temperature, backend_ok, llm) ==
    LET rc == retrieve_context(question, k, filter, backend_ok)
    IN  IF rc.outcome = "raise"
        THEN [outcome |-> "raise", error |-> rc.error, k_used |-> rc.k_used,
              embed_calls |-> rc.embed_calls, backend_calls |-> rc.backend_calls,
              generate_calls |-> 0, llm_handler |-> llm_handler]
        ELSE
        LET retrieved_docs == rc.result
            context == format_context(retrieved_docs)
            ga      == generate_answer(question, context, max_tokens, temperature, llm)
            sources == BuildSources(retrieved_docs)
            trace   == [k_used |-> rc.k_used, results |-> rc.results,
                        retrieved_docs |-> retrieved_docs, context |-> context,
                        prompt |-> ga.prompt,
                        generation_kwargs |-> ga.generation_kwargs,
                        llm_handler |-> ga.llm_handler,
                        embed_calls |-> rc.embed_calls,
                        backend_calls |-> rc.backend_calls,
                        generate_calls |-> ga.generate_calls]
        IN  IF ga.outcome = "raise"
            THEN [outcome |-> "raise", error |-> ga.error] @@ trace
            ELSE [outcome |-> "return",
                  result |-> [answer |-> ga.result, context |-> context,
                              sources |-> sources,
                              num_sources |-> Len(sources)]] @@ trace

(***************************************************************************)
(* add_documents.  The backend gives every chunk a fresh id, in input      *)
(* order.  `fail` says where the call fails ("none", "write", "persist")   *)
(* and `stored` how many chunks a failed write had already stored.  The    *)
(* Chroma adapter persists after the write; the Pinecone adapter does not. *)
(***************************************************************************)
FreshRecords(documents, n) ==
    [i \in 1..n |-> [id |-> next_id + i - 1, doc |-> documents[i]]]

BackendAddDocuments(documents, fail, stored) ==
    IF fail = "write"
    THEN [outcome |-> "raise", error |-> "ConnectionError",
          records |-> records \o FreshRecords(documents, stored),
          next_id |-> next_id + stored]
    ELSE [outcome |-> "return",
          result  |-> [i \in 1..Len(documents) |-> next_id + i - 1],
          records |-> records \o FreshRecords(documents, Len(documents)),
          next_id |-> next_id + Len(documents)]

\* variant: persists before the write
chroma_add_documents_persist_first(documents, fail, stored) ==
    LET w == BackendAddDocuments(documents, fail, stored)
    IN  IF fail = "persist"
        THEN [outcome |-> "raise", error |-> "PersistError",
              records |-> records, next_id |-> next_id,
              persisted |-> persisted, persist_calls |-> 1]
        ELSE w @@ [persisted |-> Len(records), persist_calls |-> 1]

chroma_add_documents(documents, fail, stored) ==
    LET w == BackendAddDocuments(documents, fail, stored)
    IN  IF w.outcome = "raise" THEN w @@ [persisted |-> persisted, persist_calls |-> 0]
        ELSE IF fail = "persist"
        THEN [outcome |-> "raise", error |-> "PersistError",
              records |-> w.records, next_id |-> w.next_id,
              persisted |-> persisted, persist_calls |-> 1]
        ELSE w @@ [persisted |-> Len(w.records), persist_calls |-> 1]

pinecone_add_documents(documents, fail, stored) ==
    LET w == BackendAddDocuments(documents, fail, stored)
    IN  w @@ [persisted |-> persisted, persist_calls |-> 0]

store_add_documents(documents, fail, stored) ==
    IF vector_store = "chroma"
    THEN chroma_add_documents(documents, fail, stored)
    ELSE pinecone_add_documents(documents, fail, stored)

\* variant: returns the ids in reverse order
add_documents_reversed(documents, fail, stored) ==
    LET s == store_add_documents(documents, fail, stored)
    IN  IF s.outcome = "raise" THEN s
        ELSE [s EXCEPT !.result = [i \in 1..Len(s.result) |->
                                      s.result[Len(s.result) + 1 - i]]]
                 @@ [store_result |-> s.result]

\* RAGChain.add_documents
add_documents(documents, fail, stored) ==
    LET s == store_add_documents(documents, fail, stored)
    IN  IF s.outcome = "raise" THEN s
        ELSE [s EXCEPT !.result = s.result] @@ [store_result |-> s.result]

(***************************************************************************)
(* The chain in service: Init is the state after RAGChain() has            *)
(* constructed its store; every action is one call.                        *)
(***************************************************************************)
EMBEDDING_DIMENSION == 384

\* the index create_index makes, and an index made by someone else
ConfiguredIndex == [dimension |-> EMBEDDING_DIMENSION, metric |-> "cosine"]

OtherIndex == [dimension |-> 768, metric |-> "euclidean"]

Thresholds == {0, 7}

RETRIEVAL_TOP_K == 5

TopKs == {RETRIEVAL_TOP_K}

Questions == {<<"a">>, <<"a", "a", "a">>}

StoreContents == {<<"a">>, <<"a", "a">>, <<" ", "a">>}

StoreDocs == DocsOver(StoreContents)

Ks == {None} \cup {Some(k) : k \in -1..MaxK}

Filters == {None} \cup {Some([source |-> s]) : s \in Sources}

LLMOutcomes == {"ok", "echo", "fail"}

\* per-call generation overrides: max_tokens, and temperature in tenths
MaxTokensValues == {None, Some(0), Some(64)}

TemperatureValues == {None, Some(0), Some(2)}

\* a query's max_tokens and temperature, and what the pipeline then does
QueryGenerations ==
    {<<None, None, "ok">>, <<None, None, "echo">>, <<None, None, "fail">>,
     <<Some(64), Some(2), "ok">>, <<Some(64), Some(2), "fail">>}

Init ==
    /\ settings \in [VECTOR_STORE : {Pinecone, Chroma},
                     PINECONE_API_KEY : {TRUE},
                     SIMILARITY_THRESHOLD : Thresholds,
                     RETRIEVAL_TOP_K : TopKs]
    /\ vector_store = IF settings.VECTOR_STORE = Pinecone THEN "pinecone" ELSE "chroma"
    /\ backend = [index_exists |-> vector_store = "pinecone",
                  collection_exists |-> vector_store = "chroma",
                  connections |-> 1,
                  index_creations |-> 0,
                  index_spec |-> IF vector_store = "pinecone"
                                 THEN Some(ConfiguredIndex) ELSE None]
    /\ records = <<>>
    /\ persisted = 0
    /\ next_id = 1
    /\ last = Idle
    /\ llm_handler = LLMHandler
    /\ ServiceAtRest

\* what the caller sees of an add_documents outcome (not the store's state)
Visible(r) == [f \in DOMAIN r \ {"records", "persisted", "next_id"} |-> r[f]]

\* one call at a time: its arguments and outcome stay in `last` until the
\* caller has taken them
Call(op, args, r) == [op |-> op] @@ args @@ r

StoreSearchWithScore ==
    /\ last = Idle
    /\ \E q \in Questions, k \in Ks, filter \in Filters, backend_ok \in BOOLEAN :
          last' = Call("similarity_search_with_score",
                       [query |-> q, k |-> k, filter |-> filter,
                        backend_ok |-> backend_ok],
                       similarity_search_with_score(q, k, filter, backend_ok))
    /\ UNCHANGED <<settings, vector_store, backend, records, persisted, next_id,
                   llm_handler, service_vars>>

StoreSearch ==
    /\ last = Idle
    /\ \E q \in Questions, k \in Ks, filter \in Filters, backend_ok \in BOOLEAN :
          last' = Call("similarity_search",
                       [query |-> q, k |-> k, filter |-> filter,
                        backend_ok |-> backend_ok],
                       similarity_search(q, k, filter, backend_ok))
    /\ UNCHANGED <<settings, vector_store, backend, records, persisted, next_id,
                   llm_handler, service_vars>>

RetrieveContext ==
    /\ last = Idle
    /\ \E q \in Questions, k \in Ks, filter \in Filters, backend_ok \in BOOLEAN :
          last' = Call("retrieve_context",
                       [query |-> q, k |-> k, filter |-> filter,
                        backend_ok |-> backend_ok],
                       retrieve_context(q, k, filter, backend_ok))
    /\ UNCHANGED <<settings, vector_store, backend, records, persisted, next_id,
                   llm_handler, service_vars>>

Query ==
    /\ last = Idle
    /\ \E q \in Questions, k \in Ks, filter \in Filters, o \in QueryGenerations,
          backend_ok \in BOOLEAN :
          \* the pipeline is not reached when the retrieval fails
          /\ ~backend_ok => o = <<None, None, "ok">>
          /\ LET llm == o[3]
                 r   == query(q, k, filter, o[1], o[2], backend_ok, llm)
             IN  /\ last' = Call("query",
                                 [query |-> q, k |-> k, filter |-> filter,
                                  max_tokens |-> o[1], temperature |-> o[2],
                                  backend_ok |-> backend_ok, llm |-> llm,
                                  llm_handler_before |-> llm_handler],
                                 r)
                 \* the handler as the call left it
                 /\ llm_handler' = last'.llm_handler
    /\ UNCHANGED <<settings, vector_store, backend, records, persisted, next_id,
                   service_vars>>

AddDocuments ==
    \E n \in 0..MaxDocs, fail \in {"none", "write", "persist"} :
    \E documents \in ListsOfLen(StoreDocs, n) :
       \E stored \in 0..(IF documents = <<>> THEN 0 ELSE Len(documents) - 1) :
          /\ last = Idle
          /\ Len(records) + Len(documents) <= MaxStore
          /\ fail = "persist" => vector_store = "chroma"
          /\ fail # "write" => stored = 0
          /\ LET r == add_documents(documents, fail, stored)
             IN  /\ records' = r.records
                 /\ persisted' = r.persisted
                 /\ next_id' = r.next_id
                 /\ last' = Call("add_documents",
                                 [documents |-> documents, fail |-> fail],
                                 Visible(r))
          /\ UNCHANGED <<settings, vector_store, backend, llm_handler, service_vars>>

\* the caller takes the result (or the error) of the finished call
Return ==
    /\ last # Idle
    /\ last' = Idle
    /\ UNCHANGED <<settings, vector_store, backend, records, persisted, next_id,
                   llm_handler, service_vars>>

Next == Return \/ StoreSearchWithScore \/ StoreSearch \/ RetrieveContext \/ Query \/ AddDocuments

Spec == Init /\ [][Next]_vars

(***************************************************************************)
(* Construction: VectorStoreFactory.create_vector_store, the two store     *)
(* constructors and RAGChain.__init__.  `backend` is what exists outside   *)
(* the process: the Pinecone index, the Chroma collection and the number   *)
(* of connections opened so far.  `connect` says whether the backend       *)
(* answers ("ok"), fails at once ("fail") or fails when the store is       *)
(* attached after the index was initialized ("fail_attach").               *)
(***************************************************************************)
UPPER == <<"A", "C", "E", "F", "H", "I", "M", "N", "O", "P", "R", "S">>

LOWER == <<"a", "c", "e", "f", "h", "i", "m", "n", "o", "p", "r", "s">>

LowerChar(c) ==
    IF \E i \in 1..Len(UPPER) : UPPER[i] = c
    THEN LOWER[CHOOSE i \in 1..Len(UPPER) : UPPER[i] = c]
    ELSE c

\* Python str.lower()
Lower(text) == [i \in 1..Len(text) |-> LowerChar(text[i])]

\* pc.create_index
CreateIndex(b) ==
    [b EXCEPT !.index_exists = TRUE, !.index_creations = @ + 1,
              !.index_spec = Some(ConfiguredIndex)]

\* variant: creates the index without looking at the existing ones
PineconeVectorStore_always_create(connect) ==
    IF ~settings.PINECONE_API_KEY
    THEN [outcome |-> "raise", error |-> "ValueError", backend |-> backend]
    ELSE LET opened == [backend EXCEPT !.connections = @ + 1]
             ready  == CreateIndex(opened)
         IN  IF connect = "fail"
             THEN [outcome |-> "raise", error |-> "ConnectionError", backend |-> opened]
             ELSE IF connect = "fail_attach"
             THEN [outcome |-> "raise", error |-> "ConnectionError", backend |-> ready]
             ELSE [outcome |-> "return", store |-> "pinecone", backend |-> ready,
                   index_created |-> TRUE]

PineconeVectorStore(connect) ==
    IF ~settings.PINECONE_API_KEY
    THEN [outcome |-> "raise", error |-> "ValueError", backend |-> backend]
    ELSE LET opened == [backend EXCEPT !.connections = @ + 1]
             \* _initialize_index: create the index if it does not exist
             ready  == IF backend.index_exists THEN opened ELSE CreateIndex(opened)
         IN  IF connect = "fail"
             THEN [outcome |-> "raise", error |-> "ConnectionError", backend |-> opened]
             ELSE IF connect = "fail_attach"
             THEN [outcome |-> "raise", error |-> "ConnectionError", backend |-> ready]
             ELSE [outcome |-> "return", store |-> "pinecone", backend |-> ready,
                   index_created |-> ~backend.index_exists]

ChromaVectorStore(connect) ==
    LET opened == [backend EXCEPT !.connections = @ + 1]
    IN  IF connect # "ok"
        THEN [outcome |-> "raise", error |-> "ConnectionError", backend |-> opened]
        ELSE [outcome |-> "return", store |-> "chroma",
              backend |-> [opened EXCEPT !.collection_exists = TRUE]]

\* variant: falls back to Chroma for an unrecognized value
create_vector_store_default(connect) ==
    LET vector_store_type == Lower(settings.VECTOR_STORE)
    IN  IF vector_store_type = Pinecone THEN PineconeVectorStore(connect)
        ELSE ChromaVectorStore(connect)

create_vector_store(connect) ==
    LET vector_store_type == Lower(settings.VECTOR_STORE)
    IN  IF vector_store_type = Pinecone THEN PineconeVectorStore(connect)
        ELSE IF vector_store_type = Chroma THEN ChromaVectorStore(connect)
        ELSE [outcome |-> "raise", error |-> "ValueError", backend |-> backend]

\* RAGChain.__init__: the embedding model and the LLM are loaded first
RAGChain(models_ok, connect) ==
    IF ~models_ok
    THEN [outcome |-> "raise", error |-> "ModelLoadError", backend |-> backend]
    ELSE create_vector_store(connect)

BackendTypes ==
    {Pinecone, Chroma,
     <<"P", "i", "n", "e", "c", "o", "n", "e">>,
     <<"C", "H", "R", "O", "M", "A">>,
     <<"f", "a", "i", "s", "s">>,
     <<"c", "h", "r", "o", "m", "a", " ">>,
     <<>>}

InitFactory ==
    /\ settings \in [VECTOR_STORE : BackendTypes,
                     PINECONE_API_KEY : BOOLEAN,
                     SIMILARITY_THRESHOLD : {7},
                     RETRIEVAL_TOP_K : {RETRIEVAL_TOP_K}]
    /\ vector_store = "none"
    /\ backend \in [index_exists : BOOLEAN, collection_exists : BOOLEAN,
                    connections : {0}, index_creations : {0},
                    index_spec : {None, Some(ConfiguredIndex), Some(OtherIndex)}]
    /\ backend.index_exists <=> backend.index_spec # None
    \* what an earlier run left in an existing index or collection
    /\ records \in {<<>>} \cup
                    (IF backend.index_exists \/ backend.collection_exists
                     THEN {<<[id |-> 1, doc |-> d]>> : d \in DocsOver({<<"a">>})}
                     ELSE {})
    /\ persisted = Len(records)
    /\ next_id = Len(records) + 1
    /\ last = Idle
    /\ llm_handler = LLMHandler
    /\ ServiceAtRest

ConstructRAGChain ==
    /\ last = Idle
    /\ backend.connections < MaxConnections
    /\ \E models_ok \in BOOLEAN, connect \in {"ok", "fail", "fail_attach"} :
          LET r == RAGChain(models_ok, connect)
          IN  /\ backend' = r.backend
              /\ vector_store' = IF r.outcome = "return" THEN r.store ELSE vector_store
              /\ last' = Call("RAGChain",
                              [models_ok |-> models_ok, connect |-> connect,
                               backend_before |-> backend,
                               store_before |-> vector_store],
                              [f \in DOMAIN r \ {"backend"} |-> r[f]])
    /\ UNCHANGED <<settings, records, persisted, next_id, llm_handler, service_vars>>

NextFactory == Return \/ ConstructRAGChain

SpecFactory == InitFactory /\ [][NextFactory]_vars

(***************************************************************************)
(* Specification of the pure text functions: each action applies one       *)
(* function to inputs drawn from bounded sets and records the result.      *)
(***************************************************************************)
DefaultSettings ==
    [VECTOR_STORE |-> <<"c", "h", "r", "o", "m", "a">>,
     PINECONE_API_KEY |-> FALSE,
     SIMILARITY_THRESHOLD |-> 7,
     RETRIEVAL_TOP_K |-> 5]

\* contents whose length is around the preview length
LongText(n) == [i \in 1..n |-> IF i % 2 = 1 THEN "a" ELSE " "]

PreviewContents ==
    {LongText(n) : n \in (SOURCE_PREVIEW_LEN - Slack)..(SOURCE_PREVIEW_LEN + Slack)}
        \cup {<<>>}

InitText ==
    /\ settings = DefaultSettings
    /\ vector_store = "none"
    /\ backend = [index_exists |-> FALSE, collection_exists |-> FALSE,
                  connections |-> 0, index_creations |-> 0, index_spec |-> None]
    /\ records = <<>>
    /\ persisted = 0
    /\ next_id = 1
    /\ last = Idle
    /\ llm_handler = LLMHandler
    /\ ServiceAtRest

TextFormatContext ==
    /\ last.op = "idle"
    /\ \E n \in 0..MaxDocs : \E documents \in ListsOfLen(DocsOver(Texts), n) :
          last' = [op |-> "format_context", documents |-> documents,
                   result |-> format_context(documents)]
    /\ UNCHANGED <<settings, vector_store, backend, records, persisted, next_id,
                   llm_handler, service_vars>>

TextBuildSources ==
    /\ last.op = "idle"
    /\ \E n \in 0..MaxDocs : \E documents \in ListsOfLen(DocsOver(PreviewContents), n) :
          last' = [op |-> "sources", documents |-> documents,
                   result |-> BuildSources(documents)]
    /\ UNCHANGED <<settings, vector_store, backend, records, persisted, next_id,
                   llm_handler, service_vars>>

TextFormatPrompt ==
    /\ last.op = "idle"
    /\ \E sys \in Texts, user_message \in Texts, context \in Texts :
          last' = [op |-> "format_prompt", system_prompt |-> sys,
                   user_message |-> user_message, context |-> context,
                   result |-> format_prompt(sys, user_message, context)]
    /\ UNCHANGED <<settings, vector_store, backend, records, persisted, next_id,
                   llm_handler, service_vars>>

NextText == Return \/ TextFormatContext \/ TextBuildSources \/ TextFormatPrompt

SpecText == InitText /\ [][NextText]_vars

(***************************************************************************)
(* Specification of the LLM handler: generate_response called directly and *)
(* through RAGChain.generate_answer, with and without per-call overrides.  *)
(***************************************************************************)
Prompts == {<<"a">>, <<" ", "a">>, <<>>}

Contexts == {<<>>, <<"a">>, NO_INFO}

LLMGenerateResponse ==
    /\ last = Idle
    /\ \E prompt \in Prompts, max_tokens \in MaxTokensValues,
          temperature \in TemperatureValues, llm \in LLMOutcomes :
          LET r == generate_response(prompt, max_tokens, temperature, llm)
          IN  /\ llm_handler' = r.llm_handler
              /\ last' = Call("generate_response",
                              [prompt |-> prompt, max_tokens |-> max_tokens,
                               temperature |-> temperature, llm |-> llm,
                               llm_handler_before |-> llm_handler],
                              r)
    /\ UNCHANGED <<settings, vector_store, backend, records, persisted, next_id,
                   service_vars>>

LLMGenerateAnswer ==
    /\ last = Idle
    /\ \E q \in Questions, context \in Contexts, max_tokens \in MaxTokensValues,
          temperature \in TemperatureValues, llm \in LLMOutcomes :
          LET r == generate_answer(q, context, max_tokens, temperature, llm)
          IN  /\ llm_handler' = r.llm_handler
              /\ last' = Call("generate_answer",
                              [query |-> q, context |-> context,
                               max_tokens |-> max_tokens,
                               temperature |-> temperature, llm |-> llm,
                               llm_handler_before |-> llm_handler],
                              r)
    /\ UNCHANGED <<settings, vector_store, backend, records, persisted, next_id,
                   service_vars>>

NextLLM == Return \/ LLMGenerateResponse \/ LLMGenerateAnswer

SpecLLM == InitText /\ [][NextLLM]_vars

(***************************************************************************)
(* Concurrent calls on one shared Chroma store.  Each call is a process    *)
(* of `procs`; a call of ChromaVectorStore.add_documents is two backend    *)
(* calls, the write and then persist(), and calls of other processes may   *)
(* run between them.  A search is one backend call.  Each backend call is  *)
(* one step.                                                               *)
(***************************************************************************)
SharedDocs ==
    {Document(<<"a">>, [source |-> <<"f">>, file_type |-> "txt"]),
     Document(<<"a", "a">>, [file_type |-> "txt"])}

\* the chunks of the add_documents calls that have not written yet
RECURSIVE PendingChunks(_)
PendingChunks(P) ==
    IF P = {} THEN 0
    ELSE LET p == CHOOSE x \in P : TRUE
         IN  (IF procs[p].pc = "write" THEN Len(procs[p].documents) ELSE 0)
                 + PendingChunks(P \ {p})

InitConcurrent ==
    /\ settings = DefaultSettings
    /\ vector_store = "chroma"
    /\ backend = [index_exists |-> FALSE, collection_exists |-> TRUE,
                  connections |-> 1, index_creations |-> 0, index_spec |-> None]
    /\ records = <<>>
    /\ persisted = 0
    /\ next_id = 1
    /\ last = Idle
    /\ llm_handler = LLMHandler
    /\ ServiceAtRest

\* a request enters add_documents with its chunks
CallAddDocuments(p) ==
    /\ procs[p].pc = "idle"
    /\ \E n \in 1..MaxDocs : \E documents \in ListsOfLen(SharedDocs, n) :
          /\ Len(records) + PendingChunks(Procs) + n <= MaxStore
          /\ procs' = [procs EXCEPT ![p] = [pc |-> "write", op |-> "add_documents",
                                            documents |-> documents]]
    /\ UNCHANGED <<settings, vector_store, backend, records, persisted, next_id,
                   last, llm_handler, rag_chain_instance, rate_limiter_instance>>

\* ids = self.vectorstore.add_documents(documents)
StepWrite(p) ==
    /\ procs[p].pc = "write"
    /\ LET w == BackendAddDocuments(procs[p].documents, "none", 0)
       IN  /\ records' = w.records
           /\ next_id' = w.next_id
           /\ procs' = [procs EXCEPT ![p] =
                           [pc |-> "persist", op |-> "add_documents",
                            documents |-> procs[p].documents, ids |-> w.result,
                            written_upto |-> Len(w.records)]]
    /\ UNCHANGED <<settings, vector_store, backend, persisted, last, llm_handler,
                   rag_chain_instance, rate_limiter_instance>>

\* variant: persist() writes out the collection as it was when the call's
\* own write ended
PersistedAfterPersist_snapshot(p) == procs[p].written_upto

\* self.vectorstore.persist() writes out the whole collection
PersistedAfterPersist(p) == Len(records)

StepPersist(p) ==
    /\ procs[p].pc = "persist"
    /\ persisted' = PersistedAfterPersist(p)
    /\ procs' = [procs EXCEPT ![p] =
                    [pc |-> "done", op |-> "add_documents", outcome |-> "return",
                     documents |-> procs[p].documents, result |-> procs[p].ids,
                     written_upto |-> procs[p].written_upto,
                     persisted_upto |-> persisted']]
    /\ UNCHANGED <<settings, vector_store, backend, records, next_id, last,
                   llm_handler, rag_chain_instance, rate_limiter_instance>>

\* a request runs similarity_search_with_score
StepSearch(p) ==
    /\ procs[p].pc = "idle"
    /\ \E q \in Questions, filter \in Filters :
          procs' = [procs EXCEPT ![p] =
                       [pc |-> "done", op |-> "similarity_search_with_score",
                        query |-> q, filter |-> filter, stored |-> Len(records)]
                           @@ similarity_search_with_score(q, None, filter, TRUE)]
    /\ UNCHANGED <<settings, vector_store, backend, records, persisted, next_id,
                   last, llm_handler, rag_chain_instance, rate_limiter_instance>>

\* the call returns to its request handler
StepReturn(p) ==
    /\ procs[p].pc = "done"
    /\ procs' = [procs EXCEPT ![p] = [pc |-> "idle"]]
    /\ UNCHANGED <<settings, vector_store, backend, records, persisted, next_id,
                   last, llm_handler, rag_chain_instance, rate_limiter_instance>>

NextConcurrent ==
    \E p \in Procs :
        \/ CallAddDocuments(p)
        \/ StepWrite(p)
        \/ StepPersist(p)
        \/ StepSearch(p)
        \/ StepReturn(p)

SpecConcurrent == InitConcurrent /\ [][NextConcurrent]_vars

(***************************************************************************)
(* get_rag_chain, the dependency of every endpoint.  It is a plain          *)
(* function, which the framework runs on a worker thread per request, so    *)
(* the calls of concurrent requests interleave between its statements:      *)
(* the test of the global, the construction, the assignment of the global   *)
(* and the read of the global for the return.  `instance` is the global     *)
(* _rag_chain_instance (None or the identity of a chain), `constructions`   *)
(* counts the chains constructed and `returned` collects what the calls     *)
(* have returned.                                                           *)
(***************************************************************************)
InitSingleton ==
    /\ settings = DefaultSettings
    /\ vector_store = "none"
    /\ backend = [index_exists |-> FALSE, collection_exists |-> FALSE,
                  connections |-> 0, index_creations |-> 0, index_spec |-> None]
    /\ records = <<>>
    /\ persisted = 0
    /\ next_id = 1
    /\ last = Idle
    /\ llm_handler = LLMHandler
    /\ ServiceAtRest

CallGetRagChain(p) ==
    /\ procs[p].pc = "idle"
    /\ procs' = [procs EXCEPT ![p] = [pc |-> "check", op |-> "get_rag_chain"]]
    /\ UNCHANGED <<settings, vector_store, backend, records, persisted, next_id,
                   last, llm_handler, rag_chain_instance, rate_limiter_instance>>

\* if _rag_chain_instance is None:
StepCheck(p) ==
    /\ procs[p].pc = "check"
    /\ procs' = [procs EXCEPT ![p].pc =
                    IF rag_chain_instance.instance = None THEN "construct"
                    ELSE "return"]
    /\ UNCHANGED <<settings, vector_store, backend, records, persisted, next_id,
                   last, llm_handler, rag_chain_instance, rate_limiter_instance>>

\* RAGChain(): a new chain, or the error of its construction
StepConstruct(p) ==
    /\ procs[p].pc = "construct"
    /\ backend.connections < MaxConnections
    /\ \E models_ok \in BOOLEAN, connect \in {"ok", "fail"} :
          LET r == RAGChain(models_ok, connect)
          IN  /\ backend' = r.backend
              /\ IF r.outcome = "return"
                 THEN /\ vector_store' = r.store
                      /\ rag_chain_instance' =
                             [rag_chain_instance EXCEPT !.constructions = @ + 1]
                      /\ procs' = [procs EXCEPT ![p] =
                                      [pc |-> "assign", op |-> "get_rag_chain",
                                       chain |-> rag_chain_instance.constructions + 1]]
                 ELSE /\ procs' = [procs EXCEPT ![p] =
                                      [pc |-> "done", op |-> "get_rag_chain",
                                       outcome |-> "raise", error |-> r.error]]
                      /\ UNCHANGED <<vector_store, rag_chain_instance>>
    /\ UNCHANGED <<settings, records, persisted, next_id, last, llm_handler,
                   rate_limiter_instance>>

\* _rag_chain_instance = <the new chain>
StepAssign(p) ==
    /\ procs[p].pc = "assign"
    /\ rag_chain_instance' =
           [rag_chain_instance EXCEPT !.instance = Some(procs[p].chain)]
    /\ procs' = [procs EXCEPT ![p] = [pc |-> "return", op |-> "get_rag_chain"]]
    /\ UNCHANGED <<settings, vector_store, backend, records, persisted, next_id,
                   last, llm_handler, rate_limiter_instance>>

\* return _rag_chain_instance
StepReturnInstance(p) ==
    /\ procs[p].pc = "return"
    /\ procs' = [procs EXCEPT ![p] =
                    [pc |-> "done", op |-> "get_rag_chain", outcome |-> "return",
                     result |-> rag_chain_instance.instance[1]]]
    /\ rag_chain_instance' =
           [rag_chain_instance EXCEPT
               !.returned = @ \cup {rag_chain_instance.instance[1]}]
    /\ UNCHANGED <<settings, vector_store, backend, records, persisted, next_id,
                   last, llm_handler, rate_limiter_instance>>

NextSingleton ==
    \E p \in Procs :
        \/ CallGetRagChain(p)
        \/ StepCheck(p)
        \/ StepConstruct(p)
        \/ StepAssign(p)
        \/ StepReturnInstance(p)
        \/ StepReturn(p)

SpecSingleton == InitSingleton /\ [][NextSingleton]_vars

(***************************************************************************)
(* DocumentChunker.  The text splitter is the library's; it is modelled as *)
(* cutting a text into windows of at most chunk_size characters, each      *)
(* window starting chunk_size - chunk_overlap characters after the one     *)
(* before (its preference for separators is left out), and as rejecting an *)
(* overlap larger than the chunk size.  split_documents splits the         *)
(* documents in input order and gives every chunk a copy of its parent's   *)
(* metadata; `parents` records the position of each chunk's parent.        *)
(***************************************************************************)
CHUNK_SIZE == 1000

CHUNK_OVERLAP == 200

\* DocumentChunker.__init__
DocumentChunker(chunk_size, chunk_overlap) ==
    LET size    == OrDefault(chunk_size, CHUNK_SIZE)
        overlap == OrDefault(chunk_overlap, CHUNK_OVERLAP)
    IN  IF overlap > size
        THEN [outcome |-> "raise", error |-> "ValueError"]
        ELSE [outcome |-> "return",
              result  |-> [chunk_size |-> size, chunk_overlap |-> overlap,
                           text_splitter |-> [chunk_size |-> size,
                                              chunk_overlap |-> overlap]]]

RECURSIVE split_text(_, _, _)
split_text(text, size, overlap) ==
    IF text = <<>> THEN <<>>
    ELSE IF Len(text) <= size THEN <<text>>
    ELSE <<Prefix(text, size)>>
             \o split_text(SubSeq(text, size - overlap + 1, Len(text)), size, overlap)

RECURSIVE split_documents(_, _, _)
split_documents(documents, n, splitter) ==
    IF n = 0 THEN [chunks |-> <<>>, parents |-> <<>>]
    ELSE LET before == split_documents(documents, n - 1, splitter)
             texts  == split_text(documents[n].page_content, splitter.chunk_size,
                                  splitter.chunk_overlap)
         IN  [chunks  |-> before.chunks \o
                             [i \in 1..Len(texts) |->
                                 Document(texts[i], documents[n].metadata)],
              parents |-> before.parents \o [i \in 1..Len(texts) |-> n]]

\* DocumentChunker.chunk_documents
chunk_documents(chunker, documents) ==
    LET split  == split_documents(documents, Len(documents), chunker.text_splitter)
        chunks == split.chunks
    IN  [outcome |-> "return",
         result  |-> [i \in 1..Len(chunks) |->
                         Document(chunks[i].page_content,
                                  [chunk_id |-> i - 1,
                                   chunk_size |-> Len(chunks[i].page_content)]
                                      @@ chunks[i].metadata)],
         parents |-> split.parents]

ChunkSizes == {None, Some(0), Some(100), Some(2000)}

ChunkOverlaps == {None, Some(0), Some(20)}

ChunkContents == {<<>>, <<"a">>, <<"a", " ", "a">>}

ConstructChunker ==
    /\ last = Idle
    /\ \E chunk_size \in ChunkSizes, chunk_overlap \in ChunkOverlaps :
          last' = Call("DocumentChunker",
                       [chunk_size |-> chunk_size, chunk_overlap |-> chunk_overlap],
                       DocumentChunker(chunk_size, chunk_overlap))
    /\ UNCHANGED <<settings, vector_store, backend, records, persisted, next_id,
                   llm_handler, service_vars>>

\* a chunker with a small chunk size splits the documents of one call
ChunkDocuments ==
    /\ last = Idle
    /\ \E chunk_size \in 2..MaxLen, n \in 0..MaxDocs :
       \E chunk_overlap \in 1..(chunk_size - 1),
          documents \in ListsOfLen(DocsOver(ChunkContents), n) :
          LET chunker == DocumentChunker(Some(chunk_size), Some(chunk_overlap)).result
          IN  last' = Call("chunk_documents",
                           [chunker |-> chunker, documents |-> documents],
                           chunk_documents(chunker, documents))
    /\ UNCHANGED <<settings, vector_store, backend, records, persisted, next_id,
                   llm_handler, service_vars>>

NextChunker == Return \/ ConstructChunker \/ ChunkDocuments

SpecChunker == InitText /\ [][NextChunker]_vars

(***************************************************************************)
(* RateLimiter and the rate_limiter dependency.  In rate_limiter_instance, *)
(* `requests` is the limiter's map from client id to the timestamps it     *)
(* keeps (a defaultdict: an unseen client has the empty list), `now` is    *)
(* the clock that time.time() reads, in whole seconds and never going      *)
(* back, and `accepted` is the history of the timestamps of all accepted   *)
(* requests, which the limiter does not have; `denied` counts, up to       *)
(* MaxDenied, the requests of a client denied since its last accepted one. *)
(***************************************************************************)
RateLimits == {1, 2}

RatePeriods == {1, 2}

\* variant: denies only above the limit
is_allowed_lenient(client_id) ==
    IF ~settings.RATE_LIMIT_ENABLED
    THEN [result |-> TRUE, requests |-> rate_limiter_instance.requests]
    ELSE LET now          == rate_limiter_instance.now
             window_start == now - settings.RATE_LIMIT_PERIOD
             kept         == SelectSeq(rate_limiter_instance.requests[client_id],
                                       LAMBDA req_time : req_time > window_start)
         IN  IF Len(kept) > settings.RATE_LIMIT_REQUESTS
             THEN [result   |-> FALSE,
                   requests |-> [rate_limiter_instance.requests
                                    EXCEPT ![client_id] = kept]]
             ELSE [result   |-> TRUE,
                   requests |-> [rate_limiter_instance.requests
                                    EXCEPT ![client_id] = Append(kept, now)]]

\* variant: records the timestamp of a denied request too
is_allowed_record_denied(client_id) ==
    IF ~settings.RATE_LIMIT_ENABLED
    THEN [result |-> TRUE, requests |-> rate_limiter_instance.requests]
    ELSE LET now          == rate_limiter_instance.now
             window_start == now - settings.RATE_LIMIT_PERIOD
             kept         == SelectSeq(rate_limiter_instance.requests[client_id],
                                       LAMBDA req_time : req_time > window_start)
         IN  [result   |-> Len(kept) < settings.RATE_LIMIT_REQUESTS,
              requests |-> [rate_limiter_instance.requests
                               EXCEPT ![client_id] = Append(kept, now)]]

\* RateLimiter.is_allowed
is_allowed(client_id) ==
    IF ~settings.RATE_LIMIT_ENABLED
    THEN [result |-> TRUE, requests |-> rate_limiter_instance.requests]
    ELSE LET now          == rate_limiter_instance.now
             window_start == now - settings.RATE_LIMIT_PERIOD
             kept         == SelectSeq(rate_limiter_instance.requests[client_id],
                                       LAMBDA req_time : req_time > window_start)
         IN  IF Len(kept) >= settings.RATE_LIMIT_REQUESTS
             THEN [result   |-> FALSE,
                   requests |-> [rate_limiter_instance.requests
                                    EXCEPT ![client_id] = kept]]
             ELSE [result   |-> TRUE,
                   requests |-> [rate_limiter_instance.requests
                                    EXCEPT ![client_id] = Append(kept, now)]]

\* the dependency of the endpoints: HTTP 429 when the request is not allowed
rate_limiter(client_id) ==
    LET r == is_allowed(client_id)
    IN  IF ~r.result
        THEN [outcome |-> "raise", error |-> "HTTP_429_TOO_MANY_REQUESTS",
              allowed |-> FALSE, requests |-> r.requests]
        ELSE [outcome |-> "return", allowed |-> TRUE, requests |-> r.requests]

InitLimiter ==
    /\ \E enabled \in BOOLEAN, limit \in RateLimits, period \in RatePeriods :
          settings = [RATE_LIMIT_ENABLED |-> enabled, RATE_LIMIT_REQUESTS |-> limit,
                      RATE_LIMIT_PERIOD |-> period] @@ DefaultSettings
    /\ vector_store = "none"
    /\ backend = [index_exists |-> FALSE, collection_exists |-> FALSE,
                  connections |-> 0, index_creations |-> 0, index_spec |-> None]
    /\ records = <<>>
    /\ persisted = 0
    /\ next_id = 1
    /\ last = Idle
    /\ llm_handler = LLMHandler
    /\ ServiceAtRest

\* a request of a client reaches the dependency
RateLimiterCall ==
    /\ last = Idle
    /\ \E client_id \in Clients :
          LET r   == rate_limiter(client_id)
              now == rate_limiter_instance.now
          IN  /\ rate_limiter_instance' =
                     [rate_limiter_instance EXCEPT
                         !.requests = r.requests,
                         !.accepted[client_id] =
                             \* no timestamp is taken when the limiter is off
                             IF settings.RATE_LIMIT_ENABLED /\ r.allowed
                             THEN Append(@, now) ELSE @,
                         !.denied[client_id] =
                             IF ~settings.RATE_LIMIT_ENABLED THEN @
                             ELSE IF r.allowed THEN 0
                             ELSE IF @ < MaxDenied THEN @ + 1 ELSE @]
              /\ last' = Call("rate_limiter",
                              [client_id |-> client_id, now |-> now,
                               denied_before |->
                                   rate_limiter_instance.denied[client_id]],
                              [f \in DOMAIN r \ {"requests"} |-> r[f]])
    /\ UNCHANGED <<settings, vector_store, backend, records, persisted, next_id,
                   llm_handler, rag_chain_instance, procs>>

\* a second passes
Tick ==
    /\ last = Idle
    /\ rate_limiter_instance.now < MaxTime
    /\ rate_limiter_instance' = [rate_limiter_instance EXCEPT !.now = @ + 1]
    /\ UNCHANGED <<settings, vector_store, backend, records, persisted, next_id,
                   last, llm_handler, rag_chain_instance, procs>>

NextLimiter == Return \/ RateLimiterCall \/ Tick

SpecLimiter == InitLimiter /\ [][NextLimiter]_vars

(***************************************************************************)
(* Helpers used to state the properties.                                   *)
(***************************************************************************)
Range(s) == {s[i] : i \in 1..Len(s)}

EndsWith(s, p) == Len(p) <= Len(s) /\ SubSeq(s, Len(s) - Len(p) + 1, Len(s)) = p

SetMin(S) == CHOOSE x \in S : \A y \in S : x <= y

SetMax(S) == CHOOSE x \in S : \A y \in S : x >= y

\* the content between its first and its last non-whitespace character
Trimmed(c) ==
    LET solid == {i \in 1..Len(c) : c[i] \notin Whitespace}
    IN  IF solid = {} THEN <<>> ELSE SubSeq(c, SetMin(solid), SetMax(solid))

LabelledBlock(i, source, content) ==
    <<"[Source ">> \o Str(i) \o <<": ">> \o source \o <<"]", "\n">> \o content

\* blocks 1..n, consecutive blocks separated by one blank line
RECURSIVE BlocksUpTo(_, _)
BlocksUpTo(blocks, n) ==
    IF n = 1 THEN blocks[1]
    ELSE BlocksUpTo(blocks, n - 1) \o <<"\n", "\n">> \o blocks[n]

SourceOf(doc) ==
    IF "source" \in DOMAIN doc.metadata THEN doc.metadata.source ELSE Unknown

(***************************************************************************)
(* C3 as stated: for a non-empty list of matches format_context returns    *)
(* the blocks "[Source i: source]\ncontent", i the 1-based position, with  *)
(* the match's content as it is, separated by one blank line.  The code    *)
(* strips the content, so this fails for a content with outer whitespace.  *)
(***************************************************************************)
C3_ContextBlocksVerbatim ==
    (last.op = "format_context" /\ last.documents # <<>>) =>
        last.result =
            BlocksUpTo([i \in 1..Len(last.documents) |->
                            LabelledBlock(i, SourceOf(last.documents[i]),
                                          last.documents[i].page_content)],
                       Len(last.documents))

(***************************************************************************)
(* C3 amended: for a non-empty list of matches format_context returns, in  *)
(* order, one block "[Source i: source]\ncontent" per match, i the 1-based *)
(* position, source the metadata source or "Unknown" when there is none,   *)
(* content the match's content without its leading and trailing            *)
(* whitespace, consecutive blocks separated by exactly one blank line.     *)
(***************************************************************************)
C3_ContextBlocksStripped ==
    (last.op = "format_context" /\ last.documents # <<>>) =>
        last.result =
            BlocksUpTo([i \in 1..Len(last.documents) |->
                            LabelledBlock(i, SourceOf(last.documents[i]),
                                          Trimmed(last.documents[i].page_content))],
                       Len(last.documents))

C3_Witness ==
    /\ last.op = "format_context"
    /\ Len(last.documents) = 2
    /\ last.documents[1].page_content = <<" ", "a", " ">>
    /\ last.documents[2].page_content = <<"a", " ", "a">>
    /\ "source" \in DOMAIN last.documents[1].metadata
    /\ "source" \notin DOMAIN last.documents[2].metadata

(***************************************************************************)
(* C4: the content of a source entry is the match's content unmodified     *)
(* when it has at most 200 characters, and otherwise its first 200         *)
(* characters followed by "..." (203 characters).                          *)
(***************************************************************************)
C4_SourcePreview ==
    last.op = "sources" =>
        /\ Len(last.result) = Len(last.documents)
        /\ \A i \in 1..Len(last.documents) :
              LET content == last.documents[i].page_content
                  shown   == last.result[i].content
              IN  IF Len(content) <= 200
                  THEN shown = content
                  ELSE /\ Len(shown) = 203
                       /\ \A j \in 1..200 : shown[j] = content[j]
                       /\ \A j \in 201..203 : shown[j] = "."

C4_Witness ==
    /\ last.op = "sources"
    /\ Len(last.documents) = 2
    /\ Len(last.documents[1].page_content) = 200
    /\ Len(last.documents[2].page_content) = 201
    /\ Len(last.result[1].content) = 200
    /\ Len(last.result[2].content) = 203

(***************************************************************************)
(* C10: format_prompt puts the system instructions first and the user      *)
(* message last; with an empty context the system instructions are         *)
(* followed directly by the user turn and the prompt has no "Context:"     *)
(* label, with a non-empty context they are followed by the "Context:"     *)
(* label and the context verbatim.  The prompt is fixed by the three       *)
(* inputs: the same inputs give the same prompt.                           *)
(***************************************************************************)
C10_PromptContextSection ==
    last.op = "format_prompt" =>
        LET prompt   == last.result
            sysEnd   == Len(SystemHeader) + Len(last.system_prompt)
            rest     == SubSeq(prompt, sysEnd + 1, Len(prompt))
            userTurn == UserHeader \o last.user_message \o AssistantHeader
        IN  /\ StartsWith(prompt, SystemHeader \o last.system_prompt)
            /\ EndsWith(prompt, userTurn)
            /\ last.context = <<>> =>
                  /\ rest = userTurn
                  /\ "Context:" \notin Range(prompt)
            /\ last.context # <<>> =>
                  rest = ContextLabel \o last.context \o userTurn

C10_Witness ==
    /\ last.op = "format_prompt"
    /\ last.context = <<"a", " ">>
    /\ last.user_message = <<"a">>
    /\ "Context:" \in Range(last.result)


\* the positions of the matches that reach the threshold
KeptPositions(results, t) == {i \in 1..Len(results) : results[i][2] >= t}

\* the j-th smallest element of a set of positions
JthOf(K, j) == CHOOSE i \in K : Cardinality({h \in K : h <= i}) = j

(***************************************************************************)
(* C1: retrieve_context returns exactly the documents of the search result *)
(* whose score is >= the threshold (a score equal to the threshold is      *)
(* kept), in the order of the search result.                               *)
(***************************************************************************)
C1_ThresholdFilterExact ==
    (last.op = "retrieve_context" /\ last.outcome = "return") =>
        LET K == KeptPositions(last.results, settings.SIMILARITY_THRESHOLD)
        IN  /\ Len(last.result) = Cardinality(K)
            /\ \A j \in 1..Len(last.result) :
                  last.result[j] = last.results[JthOf(K, j)][1]

C1_Witness ==
    /\ last.op = "retrieve_context"
    /\ last.outcome = "return"
    /\ Len(last.results) = 2
    /\ last.results[1][2] = settings.SIMILARITY_THRESHOLD
    /\ last.results[2][2] < settings.SIMILARITY_THRESHOLD
    /\ last.result = <<last.results[1][1]>>

(***************************************************************************)
(* C2: when the threshold filter keeps no match, query goes on: the        *)
(* context is the no-information sentence (never the empty string),        *)
(* generate is invoked exactly once with the prompt built from that        *)
(* context, the only possible failure is the generation's own, and the     *)
(* result has sources = [] and num_sources = 0.                            *)
(***************************************************************************)
C2_EmptyRetrievalStillAnswers ==
    (last.op = "query" /\ last.backend_ok /\ last.k_used >= 1
        /\ KeptPositions(BackendSearchWithScore(vector_store, last.query,
                                                last.k_used, last.filter),
                         settings.SIMILARITY_THRESHOLD) = {}) =>
        /\ last.context = <<"No relevant information found in the course materials.">>
        /\ last.context # <<>>
        /\ last.generate_calls = 1
        /\ last.prompt = SystemHeader \o system_prompt \o ContextLabel
                            \o last.context \o UserHeader \o last.query
                            \o AssistantHeader
        /\ last.outcome = "raise" => (last.llm = "fail" /\ last.error = "GenerationError")
        /\ last.llm # "fail" =>
              /\ last.outcome = "return"
              /\ last.result.context = last.context
              /\ last.result.sources = <<>>
              /\ last.result.num_sources = 0

C2_Witness ==
    /\ last.op = "query"
    /\ last.outcome = "return"
    /\ Len(last.results) = 2
    /\ last.retrieved_docs = <<>>
    /\ last.result.num_sources = 0
    /\ last.result.context = NO_INFO

(***************************************************************************)
(* C5 as stated: for every k > 0, similarity_search_with_score of either   *)
(* backend returns at most k pairs ordered by non-increasing score.  The   *)
(* Chroma adapter returns the backend's distances, nearest first, so its   *)
(* scores are non-decreasing.                                              *)
(***************************************************************************)
C5_AtMostKNonIncreasing ==
    (last.op = "similarity_search_with_score" /\ last.outcome = "return") =>
        /\ Len(last.result) <= last.k_used
        /\ \A i \in 1..(Len(last.result) - 1) :
              last.result[i][2] >= last.result[i + 1][2]

(***************************************************************************)
(* C6 as stated: a call with k = 0 or k < 0 fails with InvalidArgument     *)
(* before any embedding or backend call.  The code validates nothing: 0    *)
(* is replaced by the default and a negative k is handed to the backend.   *)
(***************************************************************************)
C6_NonPositiveKRejected ==
    (last.op \in {"similarity_search", "similarity_search_with_score",
                  "retrieve_context", "query"}
        /\ last.k # None /\ last.k[1] <= 0) =>
        /\ last.outcome = "raise"
        /\ last.error = "InvalidArgument"
        /\ last.embed_calls = 0
        /\ last.backend_calls = 0

(***************************************************************************)
(* C7: a failure of the search or of the generation during query is        *)
(* raised to the caller with no result, generate is never invoked after a  *)
(* failed retrieval, and a failure of the store's add_documents is raised  *)
(* by RAGChain.add_documents with no ids.                                  *)
(***************************************************************************)
C7_FailuresPropagate ==
    /\ (last.op = "query" /\ ~last.backend_ok) =>
          /\ last.outcome = "raise"
          /\ last.error = "ConnectionError"
          /\ "result" \notin DOMAIN last
          /\ last.generate_calls = 0
    /\ (last.op = "query" /\ last.backend_ok /\ last.k_used < 1) =>
          /\ last.outcome = "raise"
          /\ last.error = "BackendError"
          /\ "result" \notin DOMAIN last
          /\ last.generate_calls = 0
    /\ (last.op = "query" /\ last.backend_ok /\ last.k_used >= 1 /\ last.llm = "fail") =>
          /\ last.outcome = "raise"
          /\ last.error = "GenerationError"
          /\ "result" \notin DOMAIN last
    /\ (last.op = "add_documents" /\ last.fail # "none") =>
          /\ last.outcome = "raise"
          /\ last.error = (IF last.fail = "write" THEN "ConnectionError"
                           ELSE "PersistError")
          /\ "result" \notin DOMAIN last

C7_Witness ==
    /\ last.op = "query"
    /\ last.backend_ok
    /\ last.llm = "fail"
    /\ last.outcome = "raise"
    /\ last.generate_calls = 1
    /\ Len(last.retrieved_docs) = 1

(***************************************************************************)
(* C8: a successful add_documents of N chunks returns exactly N ids, the   *)
(* i-th being the id under which the i-th chunk is stored, and             *)
(* RAGChain.add_documents returns the store's id list unchanged.           *)
(***************************************************************************)
C8_OneIdPerChunkInOrder ==
    (last.op = "add_documents" /\ last.outcome = "return") =>
        /\ Len(last.result) = Len(last.documents)
        /\ last.result = last.store_result
        /\ \A i \in 1..Len(last.documents) :
              /\ \E n \in 1..Len(records) :
                    /\ records[n].id = last.result[i]
                    /\ records[n].doc = last.documents[i]
              /\ \A j \in 1..Len(last.documents) :
                    last.result[i] = last.result[j] => i = j
        /\ \A n, m \in 1..Len(records) : records[n].id = records[m].id => n = m

C8_Witness ==
    /\ last.op = "add_documents"
    /\ last.outcome = "return"
    /\ Len(last.documents) = 2
    /\ last.documents[1] # last.documents[2]
    /\ Len(last.result) = 2


(***************************************************************************)
(* C9 as stated: a store is constructed only when the configured value is  *)
(* "pinecone" or "chroma"; every other string fails with a configuration   *)
(* error.  The factory lower-cases the value first, so "CHROMA" and        *)
(* "Pinecone" construct a store.                                           *)
(***************************************************************************)
C9_OnlyExactBackendNames ==
    (last.op = "RAGChain" /\ last.models_ok
        /\ settings.VECTOR_STORE \notin {Pinecone, Chroma}) =>
        /\ last.outcome = "raise"
        /\ last.error = "ValueError"
        /\ vector_store = "none"

(***************************************************************************)
(* C9 amended: the factory constructs a store only when the configured     *)
(* value is, ignoring letter case, "pinecone" or "chroma", and then of     *)
(* that kind; for every other string it raises the configuration error     *)
(* (ValueError) with no store constructed, no index or collection created  *)
(* and no connection opened, and never a default backend.                  *)
(***************************************************************************)
C9_UnsupportedBackendRejected ==
    (last.op = "RAGChain" /\ last.models_ok) =>
        LET supported == \E name \in {Pinecone, Chroma} :
                            /\ Len(name) = Len(settings.VECTOR_STORE)
                            /\ \A i \in 1..Len(name) :
                                  \/ settings.VECTOR_STORE[i] = name[i]
                                  \/ \E u \in 1..Len(UPPER) :
                                        /\ settings.VECTOR_STORE[i] = UPPER[u]
                                        /\ name[i] = LOWER[u]
        IN  /\ ~supported =>
                  /\ last.outcome = "raise"
                  /\ last.error = "ValueError"
                  /\ "store" \notin DOMAIN last
                  /\ vector_store = last.store_before
                  /\ backend = last.backend_before
            /\ last.outcome = "return" =>
                  /\ supported
                  /\ vector_store = last.store
                  /\ last.store = "pinecone" <=> settings.VECTOR_STORE[1] \in {"p", "P"}
                  /\ last.store = "chroma" <=> settings.VECTOR_STORE[1] \in {"c", "C"}

C9_Witness ==
    /\ last.op = "RAGChain"
    /\ last.models_ok
    /\ last.connect = "ok"
    /\ settings.VECTOR_STORE = <<"f", "a", "i", "s", "s">>
    /\ settings.PINECONE_API_KEY
    /\ last.outcome = "raise"
    /\ ~backend.index_exists /\ ~backend.collection_exists

\* C11: a generate_response call invokes the model with exactly the
\* max_tokens and the temperature it was given, whatever their value (0 and
\* 0.0 included), with the handler's default only for a parameter that was
\* not given, and leaves the handler's stored defaults as they were.
C11_OverridesUsedExactly ==
    last.op \in {"generate_response", "generate_answer"} =>
        /\ last.generation_kwargs.max_new_tokens =
               (IF last.max_tokens = None THEN last.llm_handler_before.max_tokens
                ELSE last.max_tokens[1])
        /\ last.generation_kwargs.temperature =
               (IF last.temperature = None THEN last.llm_handler_before.temperature
                ELSE last.temperature[1])
        /\ last.generation_kwargs.top_p = last.llm_handler_before.top_p
        /\ llm_handler = last.llm_handler_before

\* C12: a query is stateless.  Whatever it returns or raises, it leaves the
\* store it reads (backend choice, records, persisted part, id counter), the
\* settings and the LLM handler's stored defaults as they were, so that the
\* context, the sources and num_sources of a later query are computed from
\* the same state as if no query had run before it.
C12_QueryLeavesChainUnchanged ==
    [][last'.op = "query" =>
          /\ vector_store' = vector_store
          /\ records' = records
          /\ persisted' = persisted
          /\ next_id' = next_id
          /\ settings' = settings
          /\ llm_handler' = llm_handler]_vars

\* a query with generation overrides has answered from a non-empty store
C12_Witness ==
    /\ last.op = "query"
    /\ last.outcome = "return"
    /\ last.max_tokens # None
    /\ last.temperature # None
    /\ last.result.num_sources > 0
    /\ records # <<>>

\* the positions of the block headers in a context
BlockHeads(context) == {p \in 1..Len(context) : context[p] = "[Source "}

\* C13: in a query result num_sources is the length of sources, which is
\* the number of matches the threshold filter kept; the i-th source entry
\* belongs to the i-th kept match, and its source is the label of the i-th
\* "[Source i: ...]" block of the context: the metadata source of that
\* match, or "Unknown" when the metadata has none.
C13_SourcesMatchContext ==
    (last.op = "query" /\ last.outcome = "return") =>
        LET K       == KeptPositions(last.results, settings.SIMILARITY_THRESHOLD)
            sources == last.result.sources
            context == last.result.context
            heads   == BlockHeads(context)
        IN  /\ last.result.num_sources = Len(sources)
            /\ Len(sources) = Cardinality(K)
            /\ Cardinality(heads) = Cardinality(K)
            /\ \A i \in 1..Len(sources) :
                  LET label  == sources[i].source
                      header == <<"[Source ">> \o Str(i) \o <<": ">> \o label \o <<"]">>
                      p      == JthOf(heads, i)
                  IN  /\ label = SourceOf(last.results[JthOf(K, i)][1])
                      /\ SubSeq(context, p, p + Len(header) - 1) = header

\* a query has answered from two kept matches, the first with a metadata
\* source and the second without
C13_Witness ==
    /\ last.op = "query"
    /\ last.outcome = "return"
    /\ last.result.num_sources = 2
    /\ last.result.sources[1].source = <<"f">>
    /\ last.result.sources[2].source = Unknown
    /\ Cardinality(BlockHeads(last.result.context)) = 2

\* how similar a stored document is to a query: the cosine similarity of
\* their embeddings
Similarity(q, doc) == CosSim(Embed(q), Embed(doc.page_content))

\* C14: the score compared with the threshold means "higher is more
\* similar" on both backends: whenever retrieve_context keeps one match of
\* a search result and drops another, the kept match is at least as similar
\* to the query as the dropped one.
C14_KeptAtLeastAsSimilar ==
    (last.op = "retrieve_context" /\ last.outcome = "return") =>
        LET K == KeptPositions(last.results, settings.SIMILARITY_THRESHOLD)
        IN  \A i \in K : \A j \in (1..Len(last.results)) \ K :
                Similarity(last.query, last.results[i][1])
                    >= Similarity(last.query, last.results[j][1])

\* a construction that reached the Pinecone store and returned
PineconeAttached(call) ==
    call.op = "RAGChain" /\ call.outcome = "return" /\ call.store = "pinecone"

\* C15: constructing a store is idempotent.  Over any sequence of
\* constructions the Pinecone index is created only when it is absent at
\* construction time, then with the configured dimension and the cosine
\* metric, hence at most once; a construction for an existing index attaches
\* to it without error and leaves the index as it was; a construction of the
\* Chroma store for an existing collection attaches to it; and no
\* construction changes the records of the store.
C15_ConstructionIdempotent ==
    /\ [](backend.index_creations <= 1)
    /\ [][last'.op = "RAGChain" =>
            LET created == backend'.index_creations - backend.index_creations
                reached == /\ last'.models_ok
                           /\ last'.connect = "ok"
            IN  /\ created \in {0, 1}
                /\ created = 1 =>
                       /\ ~backend.index_exists
                       /\ backend'.index_exists
                       /\ backend'.index_spec = Some(ConfiguredIndex)
                /\ PineconeAttached(last') =>
                       /\ backend'.index_exists
                       /\ created = 1 <=> ~backend.index_exists
                       /\ last'.index_created <=> ~backend.index_exists
                /\ backend.index_exists =>
                       /\ backend'.index_exists
                       /\ backend'.index_spec = backend.index_spec
                       /\ (reached /\ Lower(settings.VECTOR_STORE) = Pinecone
                               /\ settings.PINECONE_API_KEY)
                              => PineconeAttached(last')
                /\ backend.collection_exists =>
                       /\ backend'.collection_exists
                       /\ (reached /\ Lower(settings.VECTOR_STORE) = Chroma)
                              => (last'.outcome = "return" /\ last'.store = "chroma")
                /\ records' = records
                /\ persisted' = persisted]_vars

\* a second construction has attached to the index the first one created,
\* with the records it found
C15_Witness ==
    /\ PineconeAttached(last)
    /\ last.backend_before.index_exists
    /\ last.backend_before.index_creations = 1
    /\ backend.index_creations = 1
    /\ backend.connections = 2
    /\ ~last.index_created

\* a construction has attached to an existing Chroma collection that holds
\* a record
C15_WitnessChroma ==
    /\ last.op = "RAGChain"
    /\ last.outcome = "return"
    /\ last.store = "chroma"
    /\ last.backend_before.collection_exists
    /\ records # <<>>

\* no add_documents call is between its write and the end of its persist
NoAddInProgress == \A p \in Procs : procs[p].pc \notin {"persist"}

C17_ConstructOnceReuse ==
    /\ rag_chain_instance.constructions <= 1
    /\ Cardinality(rag_chain_instance.returned) <= 1

\* C18: chunk_documents gives every chunk a chunk_size equal to the length
\* of its content and a chunk_id equal to the chunk's 0-based index among
\* the chunks of its parent document, whether the call is given one
\* document or several.
C18_ChunkIdWithinParent ==
    last.op = "chunk_documents" =>
        \A i \in 1..Len(last.result) :
            LET chunk == last.result[i]
            IN  /\ chunk.metadata.chunk_size = Len(chunk.page_content)
                /\ chunk.metadata.chunk_id =
                       Cardinality({j \in 1..(i - 1) :
                                       last.parents[j] = last.parents[i]})

\* C19: a DocumentChunker constructed with an explicit chunk_size and an
\* explicit chunk_overlap exposes exactly those values and gives them to
\* its splitter, whatever the values; the configured default is used only
\* for an argument that was not supplied.
C19_ExplicitValuesExposed ==
    last.op = "DocumentChunker" =>
        LET size    == IF last.chunk_size = None THEN CHUNK_SIZE
                       ELSE last.chunk_size[1]
            overlap == IF last.chunk_overlap = None THEN CHUNK_OVERLAP
                       ELSE last.chunk_overlap[1]
        IN  IF overlap > size THEN last.outcome = "raise"
            ELSE /\ last.outcome = "return"
                 /\ last.result.chunk_size = size
                 /\ last.result.chunk_overlap = overlap
                 /\ last.result.text_splitter =
                        [chunk_size |-> size, chunk_overlap |-> overlap]

\* the number of requests of a client accepted with a timestamp in (t - period, t]
AcceptedIn(client_id, t) ==
    Cardinality({i \in DOMAIN rate_limiter_instance.accepted[client_id] :
                    /\ rate_limiter_instance.accepted[client_id][i]
                           > t - settings.RATE_LIMIT_PERIOD
                    /\ rate_limiter_instance.accepted[client_id][i] <= t})

\* C20: with rate limiting enabled, for every client and every time t the
\* number of the client's requests accepted with a timestamp in
\* (t - RATE_LIMIT_PERIOD, t] is at most RATE_LIMIT_REQUESTS; a check leaves
\* the client no timestamp older than the window; and a check of one client
\* changes nothing of another client and is decided by the client's own
\* accepted requests alone.
C20_SlidingWindowLimit ==
    /\ [](settings.RATE_LIMIT_ENABLED =>
            \A c \in Clients : \A t \in 0..MaxTime :
                AcceptedIn(c, t) <= settings.RATE_LIMIT_REQUESTS)
    /\ []((settings.RATE_LIMIT_ENABLED /\ last.op = "rate_limiter") =>
            \A i \in DOMAIN rate_limiter_instance.requests[last.client_id] :
                rate_limiter_instance.requests[last.client_id][i]
                    > last.now - settings.RATE_LIMIT_PERIOD)
    /\ [][(settings.RATE_LIMIT_ENABLED /\ last'.op = "rate_limiter") =>
            /\ \A c \in Clients \ {last'.client_id} :
                  /\ rate_limiter_instance'.requests[c]
                         = rate_limiter_instance.requests[c]
                  /\ rate_limiter_instance'.accepted[c]
                         = rate_limiter_instance.accepted[c]
            /\ last'.allowed <=>
                  AcceptedIn(last'.client_id, last'.now)
                      < settings.RATE_LIMIT_REQUESTS]_vars

\* a client at its limit is denied after one of its timestamps was evicted,
\* while the other client has requests accepted in the same window
C20_Witness ==
    /\ settings.RATE_LIMIT_ENABLED
    /\ last.op = "rate_limiter"
    /\ last.outcome = "raise"
    /\ Len(rate_limiter_instance.accepted[last.client_id])
           > Len(rate_limiter_instance.requests[last.client_id])
    /\ Len(rate_limiter_instance.requests[last.client_id])
           = settings.RATE_LIMIT_REQUESTS
    /\ \E c \in Clients \ {last.client_id} :
          /\ AcceptedIn(c, last.now) > 0
          /\ AcceptedIn(c, last.now) < settings.RATE_LIMIT_REQUESTS

\* C21: on the Chroma backend an add_documents call that returns ids has
\* written and then persisted: when it has returned, persist was called
\* once, after the write, so that every record of the store, the records
\* of the call among them, is persisted; and persist is not called for a
\* write that raised.
C21_WriteThenPersist ==
    (last.op = "add_documents" /\ vector_store = "chroma") =>
        /\ last.outcome = "return" =>
               /\ last.persist_calls = 1
               /\ persisted = Len(records)
               /\ \A i \in 1..Len(last.result) :
                     \E n \in 1..persisted : records[n].id = last.result[i]
        /\ last.fail = "write" =>
               /\ last.outcome = "raise"
               /\ last.persist_calls = 0

\* a call on Chroma has returned the ids of its chunks, added to a store
\* that already held records
C21_Witness ==
    /\ last.op = "add_documents"
    /\ vector_store = "chroma"
    /\ last.outcome = "return"
    /\ last.persist_calls = 1
    /\ Len(last.documents) >= 1
    /\ Len(records) > Len(last.documents)
    /\ persisted = Len(records)

\* C22: is_allowed records a timestamp only for a request it allows: the
\* timestamps the limiter keeps are timestamps of accepted requests, and a
\* denied request leaves the client with no timestamp it did not have.
\* Hence denied attempts never extend the denial: a request made when the
\* client's oldest recorded request is at least RATE_LIMIT_PERIOD old is
\* accepted, however many requests were denied before it.
C22_DeniedNotRecorded ==
    /\ [](settings.RATE_LIMIT_ENABLED =>
            \A c \in Clients :
                Range(rate_limiter_instance.requests[c])
                    \subseteq Range(rate_limiter_instance.accepted[c]))
    /\ [][(settings.RATE_LIMIT_ENABLED /\ last'.op = "rate_limiter") =>
            /\ ~last'.allowed =>
                  /\ Len(rate_limiter_instance'.requests[last'.client_id])
                         <= Len(rate_limiter_instance.requests[last'.client_id])
                  /\ Range(rate_limiter_instance'.requests[last'.client_id])
                         \subseteq
                             Range(rate_limiter_instance.requests[last'.client_id])
                  /\ last'.now \notin
                         Range(rate_limiter_instance'.requests[last'.client_id])
                             \ Range(rate_limiter_instance.requests[last'.client_id])
            /\ (/\ rate_limiter_instance.requests[last'.client_id] # <<>>
                /\ rate_limiter_instance.requests[last'.client_id][1]
                       <= last'.now - settings.RATE_LIMIT_PERIOD)
                  => last'.allowed]_vars

\* a client at its limit had requests denied, as many as are counted, and
\* is accepted again once its oldest recorded request has left the window
C22_Witness ==
    /\ settings.RATE_LIMIT_ENABLED
    /\ last.op = "rate_limiter"
    /\ last.outcome = "return"
    /\ last.denied_before = MaxDenied
    /\ rate_limiter_instance.denied[last.client_id] = 0
    /\ Len(rate_limiter_instance.accepted[last.client_id])
           > settings.RATE_LIMIT_REQUESTS

\* a construction that raises ends its call with the error and leaves the
\* singleton as it was, and a call that finds the singleton unset goes on
\* to construct
FailedInitNotCached ==
    /\ [](\A p \in Procs :
            (procs[p].pc = "done" /\ procs[p].op = "get_rag_chain"
                /\ procs[p].outcome = "raise") =>
                procs[p].error \in {"ModelLoadError", "ConnectionError"})
    /\ [][\A p \in Procs :
            /\ (procs[p].pc = "construct" /\ procs'[p].pc = "done") =>
                  /\ procs'[p].outcome = "raise"
                  /\ rag_chain_instance' = rag_chain_instance
            /\ (procs[p].pc = "check" /\ procs'[p].pc # "check") =>
                  (procs'[p].pc = "construct"
                      <=> rag_chain_instance.instance = None)]_vars

\* once the singleton is set no call starts a construction
NoConstructionAfterSuccess ==
    [][rag_chain_instance.instance # None =>
          \A p \in Procs :
              ~(procs[p].pc = "construct" /\ procs'[p].pc # "construct")]_vars

\* C23: a failed initialization is not cached: when RAGChain raises inside
\* get_rag_chain the error reaches the caller, the singleton stays unset
\* and a later call constructs again; and after the first success no
\* further construction is attempted.
C23_FailedInitRetried ==
    /\ FailedInitNotCached
    /\ NoConstructionAfterSuccess

=============================================================================
